---- MODULE Spec2Model ----
(***************************************************************************)
(* Model of bot.py: the message handler `handle` (quota-limited intake),   *)
(* the in-memory download_queue with its asyncio lock, the persistent      *)
(* `users` table, and the background coroutine `downloader_loop`.          *)
(*                                                                         *)
(* Execution model.  All coroutines run on one asyncio event loop, so a    *)
(* coroutine runs without interruption from one `await` that suspends to   *)
(* the next.  The variable `running` names the coroutine that currently    *)
(* holds the loop thread (NoTask when the loop is free to pick a ready     *)
(* coroutine).  Statements are modelled one program line per step; the     *)
(* labels Lnnn are line numbers of src/bot.py.  `async with queue_lock`    *)
(* suspends only when the lock is held (asyncio.Lock.acquire returns       *)
(* without yielding when the lock is free).  subprocess.run is a blocking  *)
(* call: the worker keeps the loop thread until the child exits or the     *)
(* timeout fires.                                                          *)
(***************************************************************************)
EXTENDS Integers, Sequences, FiniteSets, TLC

\* ---------------------------------------------------------------- constants
DAILY_LIMIT == 4
ADMIN_ID == 0

\* ------------------------------------------------------------------- bounds
MaxHandlers == 2     \* handle() invocations that may be in flight at once
MaxStarts == 2       \* downloader_loop tasks created per process
MaxJobs == 2         \* jobs appended to download_queue over a whole run
MaxDay == 1          \* the UTC clock runs over days 0..MaxDay

Users == {1, 2}
Urls == {"x"}
Handlers == 1..MaxHandlers
Workers == 1..MaxStarts
Days == 0..MaxDay

NoTask == <<"none", 0>>
H(h) == <<"handle", h>>
W(w) == <<"downloader_loop", w>>

\* statuses context.bot.get_chat_member can report, and "error" for a raise
ChatMemberResults == {"member", "administrator", "creator", "left", "error"}

VARIABLES
    clock,               \* current UTC day, read by today()
    db,                  \* table users: user_id -> [daily_count, last_day]
    download_queue,      \* deque of jobs [uid, url, id]; id is a history tag
    queue_lock,          \* holder of the asyncio.Lock, or NoTask
    downloader_running,  \* the module-level flag
    files,               \* DOWNLOAD_DIR, oldest ctime first: [id, uid]
    running,             \* coroutine holding the event-loop thread
    \* one frame per handle() invocation
    hpc, huid, htext, hcount, hday, hpos,
    \* one frame per downloader_loop task
    wpc, wjob, wrc, wfile,
    \* history variables (not program state)
    hpre,                \* what handle saw when its synchronous part began
    hsub,                \* what get_chat_member answered to this invocation
    accepted,            \* user -> day -> number of jobs appended for them
    enq_log, deq_log,    \* jobs appended / popped since the process started
    nenq,                \* jobs appended over the whole run (next id - 1)
    wfetch, wnotified, wsent   \* current cycle: fetch outcome, notifications

hvars == <<hpc, huid, htext, hcount, hday, hpos, hpre, hsub>>
wvars == <<wpc, wjob, wrc, wfile, wfetch, wnotified, wsent>>
qvars == <<download_queue, queue_lock, enq_log, deq_log, nenq>>
vars == <<clock, db, download_queue, queue_lock, downloader_running, files,
          running, hpc, huid, htext, hcount, hday, hpos, wpc, wjob, wrc, wfile,
          hpre, hsub, accepted, enq_log, deq_log, nenq, wfetch, wnotified,
          wsent>>

NoJob == [uid |-> 0, url |-> "", id |-> 0]
NoFile == [id |-> 0, uid |-> 0]
NoPre == [has_row |-> FALSE, daily_count |-> 0, last_day |-> 0, today |-> 0,
          nenq |-> 0, qlen |-> 0]

\* ------------------------------------------------------------------ helpers
today == clock

is_admin(uid) == uid = ADMIN_ID

\* is_subscribed that lets a failed check through
is_subscribed_FailOpen(res) == res \in {"member", "administrator", "creator", "error"}

\* is_subscribed: the membership statuses that count, False on any exception
is_subscribed(res) == res \in {"member", "administrator", "creator"}

\* a row of table users; has_row = FALSE stands for "no row for this user_id"
Row(count, day) == [has_row |-> TRUE, daily_count |-> count, last_day |-> day]
NoRow == [has_row |-> FALSE, daily_count |-> 0, last_day |-> 0]

\* a get_user that also rewrites a row whose day is not today
get_user_db_ResetOnRead(uid) ==
    IF db[uid].has_row /\ db[uid].last_day = today
    THEN db ELSE [db EXCEPT ![uid] = Row(0, today)]

\* get_user: the table after the call (a missing row is inserted)
get_user_db(uid) ==
    IF db[uid].has_row THEN db ELSE [db EXCEPT ![uid] = Row(0, today)]

\* get_user that answers (0, today) without reading the stored row
get_user_Fresh(uid) == Row(0, today)

\* get_user: the (daily_count, last_day) pair returned
get_user(uid) ==
    IF db[uid].has_row THEN db[uid] ELSE Row(0, today)

\* update_user that stores the count it was given less one
update_user_NoIncrement(uid, count, day) ==
    IF db[uid].has_row THEN [db EXCEPT ![uid] = Row(count - 1, day)] ELSE db

\* update_user: UPDATE ... WHERE user_id=? (no row, no effect)
update_user(uid, count, day) ==
    IF db[uid].has_row THEN [db EXCEPT ![uid] = Row(count, day)] ELSE db

\* lines 123-125 without the reset
EffectiveCount_NoReset(count, day) == count

\* handle, lines 123-125: the stale-day reset of the local count
EffectiveCount(count, day) == IF day # today THEN 0 ELSE count

\* line 127 with > for >=
OverLimit_OffByOne(count) == count > DAILY_LIMIT

\* handle, line 127
OverLimit(count) == count >= DAILY_LIMIT

\* deque.appendleft in place of deque.append
Append_Left(q, job) == <<job>> \o q

\* deque.append / deque.popleft
Append_(q, job) == Append(q, job)
PopLeftJob(q) == Head(q)

\* q[0] read in place of q.popleft(): the head stays in the deque
PopLeftRest_Keep(q) == q

PopLeftRest(q) == Tail(q)

\* a downloader_loop without the except clause
OnException_Uncaught == "uncaught"

\* what `except Exception` in downloader_loop does with an exception
OnException == "L186"

\* max(os.listdir(DOWNLOAD_DIR), key=os.path.getctime): the newest file
NewestFile(dir) == dir[Len(dir)]

\* os.remove(path)
RemoveFile(dir, f) == SelectSeq(dir, LAMBDA g : g # f)

InDir(dir, f) == \E i \in 1..Len(dir) : dir[i] = f

\* line 141 seeing the flag set even on the first start
AlreadyRunning_Always(flag) == TRUE

\* line 141 never seeing the flag set
AlreadyRunning_Never(flag) == FALSE

\* line 141: the start-once latch
AlreadyRunning(flag) == flag

\* --------------------------------------------------------------------- Init
\* bot.db is a file: a process starts with the rows earlier processes left,
\* here no row, or a row written on day 0 by DAILY_LIMIT - 1 accepted requests
InitRows == {NoRow, Row(DAILY_LIMIT - 1, 0)}

Init ==
    /\ clock = 0
    /\ db \in [Users -> InitRows]
    /\ download_queue = <<>>
    /\ queue_lock = NoTask
    /\ downloader_running = FALSE
    /\ files = <<>>
    /\ running = NoTask
    /\ hpc = [h \in Handlers |-> "idle"]
    /\ huid = [h \in Handlers |-> 0]
    /\ htext = [h \in Handlers |-> ""]
    /\ hcount = [h \in Handlers |-> 0]
    /\ hday = [h \in Handlers |-> 0]
    /\ hpos = [h \in Handlers |-> 0]
    /\ hpre = [h \in Handlers |-> NoPre]
    /\ hsub = [h \in Handlers |-> ""]
    /\ wpc = [w \in Workers |-> "created"]
    /\ wjob = [w \in Workers |-> NoJob]
    /\ wrc = [w \in Workers |-> 0]
    /\ wfile = [w \in Workers |-> NoFile]
    /\ wfetch = [w \in Workers |-> "none"]
    /\ wnotified = [w \in Workers |-> "none"]
    /\ wsent = [w \in Workers |-> NoFile]
    /\ accepted = [u \in Users |-> [d \in Days |->
                       IF db[u].has_row /\ db[u].last_day = d
                       THEN db[u].daily_count ELSE 0]]
    /\ enq_log = <<>>
    /\ deq_log = <<>>
    /\ nenq = 0

\* a position counted from zero
len_ZeroBased(q) == Len(q) - 1

\* line 133: pos = len(download_queue)
len(q) == Len(q)

\* the accepted path with the UPDATE moved ahead of the append
Flow_ChargeFirst(pc) ==
    CASE pc = "L127" -> "L135"
      [] pc = "L135" -> "L131"
      [] pc = "L132" -> "L136"

\* handle, lines 131-136: the line that follows each step of the accepted
\* path (append under the lock, then update_user, then the reply)
Flow(pc) ==
    CASE pc = "L127" -> "L131"
      [] pc = "L132" -> "L135"
      [] pc = "L135" -> "L136"

\* ------------------------------------------------------------------- handle
\* invocations that may still append a job
Pending == {h \in Handlers : hpc[h] \in {"L118", "L122", "L123", "L127", "L131", "L132"}}

\* lines 114-118: an update is dispatched to handle; it suspends in
\* `await is_subscribed(...)`.  Frames are interchangeable, so a new
\* invocation takes the lowest free one.
Arrive(h, uid, text) ==
    /\ running = NoTask
    /\ hpc[h] = "idle"
    /\ \A g \in Handlers : g < h => hpc[g] # "idle"
    /\ nenq + Cardinality(Pending) < MaxJobs
    /\ hpc' = [hpc EXCEPT ![h] = "L118"]
    /\ huid' = [huid EXCEPT ![h] = uid]
    /\ htext' = [htext EXCEPT ![h] = text]
    /\ UNCHANGED <<clock, db, files, running, downloader_running, hcount, hday,
                   hpos, hpre, hsub, accepted, qvars, wvars>>

\* lines 86-91, 118-120: get_chat_member answers (or raises)
IsSubscribedDone(h, res) ==
    /\ running = NoTask
    /\ hpc[h] = "L118"
    /\ hsub' = [hsub EXCEPT ![h] = res]
    /\ IF is_subscribed(res)
       THEN /\ hpc' = [hpc EXCEPT ![h] = "L122"]
            /\ running' = H(h)
            /\ hpre' = [hpre EXCEPT ![h] =
                   [has_row |-> db[huid[h]].has_row,
                    daily_count |-> db[huid[h]].daily_count,
                    last_day |-> db[huid[h]].last_day,
                    today |-> today,
                    nenq |-> nenq,
                    qlen |-> Len(download_queue)]]
       ELSE /\ hpc' = [hpc EXCEPT ![h] = "L119"]
            /\ running' = H(h)
            /\ UNCHANGED hpre
    /\ UNCHANGED <<clock, db, files, downloader_running, huid, htext, hcount,
                   hday, hpos, accepted, qvars, wvars>>

\* line 122: count, day = get_user(uid)
L122(h) ==
    /\ running = H(h)
    /\ hpc[h] = "L122"
    /\ db' = get_user_db(huid[h])
    /\ hcount' = [hcount EXCEPT ![h] = get_user(huid[h]).daily_count]
    /\ hday' = [hday EXCEPT ![h] = get_user(huid[h]).last_day]
    /\ hpc' = [hpc EXCEPT ![h] = "L123"]
    /\ UNCHANGED <<clock, files, running, downloader_running, huid, htext, hpos,
                   hpre, hsub, accepted, qvars, wvars>>

\* lines 123-125: a stale day resets the local count
L123(h) ==
    /\ running = H(h)
    /\ hpc[h] = "L123"
    /\ hcount' = [hcount EXCEPT ![h] = EffectiveCount(hcount[h], hday[h])]
    /\ hday' = [hday EXCEPT ![h] = IF hday[h] # today THEN today ELSE hday[h]]
    /\ hpc' = [hpc EXCEPT ![h] = "L127"]
    /\ UNCHANGED <<clock, db, files, running, downloader_running, huid, htext,
                   hpos, hpre, hsub, accepted, qvars, wvars>>

\* line 127: the quota test
L127(h) ==
    /\ running = H(h)
    /\ hpc[h] = "L127"
    /\ hpc' = [hpc EXCEPT ![h] = IF OverLimit(hcount[h]) THEN "L128" ELSE Flow("L127")]
    /\ UNCHANGED <<clock, db, files, running, downloader_running, huid, htext,
                   hcount, hday, hpos, hpre, hsub, accepted, qvars, wvars>>

\* line 131: async with queue_lock (suspends only while the lock is held)
L131(h) ==
    /\ hpc[h] = "L131"
    /\ running \in {H(h), NoTask}
    /\ IF queue_lock = NoTask
       THEN /\ queue_lock' = H(h)
            /\ running' = H(h)
            /\ hpc' = [hpc EXCEPT ![h] = "L132"]
       ELSE /\ running' = NoTask
            /\ UNCHANGED <<queue_lock, hpc>>
    /\ UNCHANGED <<clock, db, files, downloader_running, huid, htext, hcount,
                   hday, hpos, hpre, hsub, accepted, download_queue, enq_log,
                   deq_log, nenq, wvars>>

\* lines 132-133 and the lock's release at the end of the with block
L132(h) ==
    /\ running = H(h)
    /\ hpc[h] = "L132"
    /\ LET job == [uid |-> huid[h], url |-> htext[h], id |-> nenq + 1] IN
         /\ download_queue' = Append_(download_queue, job)
         /\ enq_log' = Append(enq_log, job)
    /\ hpos' = [hpos EXCEPT ![h] = len(download_queue')]
    /\ nenq' = nenq + 1
    /\ accepted' = [accepted EXCEPT ![huid[h]][today] = @ + 1]
    /\ queue_lock' = NoTask
    /\ hpc' = [hpc EXCEPT ![h] = Flow("L132")]
    /\ UNCHANGED <<clock, db, files, running, downloader_running, huid, htext,
                   hcount, hday, hpre, hsub, deq_log, wvars>>

\* line 135: update_user(uid, count + 1, day)
L135(h) ==
    /\ running = H(h)
    /\ hpc[h] = "L135"
    /\ db' = update_user(huid[h], hcount[h] + 1, hday[h])
    /\ hpc' = [hpc EXCEPT ![h] = Flow("L135")]
    /\ UNCHANGED <<clock, files, running, downloader_running, huid, htext,
                   hcount, hday, hpos, hpre, hsub, accepted, qvars, wvars>>

\* lines 119, 128, 136: handle suspends in `await reply_text(...)`; nothing
\* after the reply reads the frame's other locals, which are dropped here
ReplyStart(h) ==
    /\ running = H(h)
    /\ hpc[h] \in {"L119", "L128", "L136"}
    /\ hpc' = [hpc EXCEPT ![h] = "reply"]
    /\ running' = NoTask
    /\ htext' = [htext EXCEPT ![h] = ""]
    /\ hcount' = [hcount EXCEPT ![h] = 0]
    /\ hday' = [hday EXCEPT ![h] = 0]
    /\ hpos' = [hpos EXCEPT ![h] = 0]
    /\ hpre' = [hpre EXCEPT ![h] = NoPre]
    /\ hsub' = [hsub EXCEPT ![h] = ""]
    /\ UNCHANGED <<clock, db, files, downloader_running, huid, accepted, qvars,
                   wvars>>

\* lines 120, 129, 136: reply_text returns or raises; handle is over
ReplyDone(h) ==
    /\ running = NoTask
    /\ hpc[h] = "reply"
    /\ hpc' = [hpc EXCEPT ![h] = "idle"]
    /\ huid' = [huid EXCEPT ![h] = 0]
    /\ UNCHANGED <<clock, db, files, running, downloader_running, htext,
                   hcount, hday, hpos, hpre, hsub, accepted, qvars, wvars>>

\* ---------------------------------------------------------- downloader_loop
\* outcomes of subprocess.run(cmd, timeout=600): exit status or
\* TimeoutExpired, each with or without a file written to DOWNLOAD_DIR
FetchOutcomes == {"exit0_file", "exit0_nofile", "exit1", "exit1_partial",
                  "timeout", "timeout_partial"}
WritesFile(o) == o \in {"exit0_file", "exit1_partial", "timeout_partial"}
TimesOut(o) == o \in {"timeout", "timeout_partial"}
ReturnCode(o) == IF o \in {"exit0_file", "exit0_nofile"} THEN 0 ELSE 1

\* lines 139-142: the task created by main runs for the first time
L141(w) ==
    /\ running = NoTask
    /\ wpc[w] = "created"
    /\ IF AlreadyRunning(downloader_running)
       THEN /\ wpc' = [wpc EXCEPT ![w] = "returned"]
            /\ UNCHANGED running
       ELSE /\ wpc' = [wpc EXCEPT ![w] = "L144"]
            /\ running' = W(w)
    /\ UNCHANGED <<clock, db, files, downloader_running, hvars, accepted, qvars,
                   wjob, wrc, wfile, wfetch, wnotified, wsent>>

\* lines 144-145
L144(w) ==
    /\ running = W(w)
    /\ wpc[w] = "L144"
    /\ downloader_running' = TRUE
    /\ wpc' = [wpc EXCEPT ![w] = "L149"]
    /\ UNCHANGED <<clock, db, files, running, hvars, accepted, qvars,
                   wjob, wrc, wfile, wfetch, wnotified, wsent>>

\* the locals of a finished cycle (uid, url, proc, file_path) are dead until
\* the next cycle assigns them again; they are dropped when the cycle is over
ForgetCycle(w) ==
    /\ wjob' = [wjob EXCEPT ![w] = NoJob]
    /\ wrc' = [wrc EXCEPT ![w] = 0]
    /\ wfile' = [wfile EXCEPT ![w] = NoFile]
    /\ wfetch' = [wfetch EXCEPT ![w] = "none"]
    /\ wnotified' = [wnotified EXCEPT ![w] = "none"]
    /\ wsent' = [wsent EXCEPT ![w] = NoFile]

\* lines 147-151: top of the loop; poll the queue, sleep(2) when it is empty
L149(w) ==
    /\ running = W(w)
    /\ wpc[w] = "L149"
    /\ IF download_queue = <<>>
       THEN /\ wpc' = [wpc EXCEPT ![w] = "L150"]
            /\ running' = NoTask
       ELSE /\ wpc' = [wpc EXCEPT ![w] = "L153"]
            /\ UNCHANGED running
    /\ ForgetCycle(w)
    /\ UNCHANGED <<clock, db, files, downloader_running, hvars, accepted, qvars>>

\* asyncio.sleep(2) (line 150) or asyncio.sleep(5) (line 188) is over
SleepDone(w) ==
    /\ running = NoTask
    /\ wpc[w] \in {"L150", "L188"}
    /\ wpc' = [wpc EXCEPT ![w] = "L149"]
    /\ running' = W(w)
    /\ UNCHANGED <<clock, db, files, downloader_running, hvars, accepted, qvars,
                   wjob, wrc, wfile, wfetch, wnotified, wsent>>

\* line 153: async with queue_lock
L153(w) ==
    /\ wpc[w] = "L153"
    /\ running \in {W(w), NoTask}
    /\ IF queue_lock = NoTask
       THEN /\ queue_lock' = W(w)
            /\ running' = W(w)
            /\ wpc' = [wpc EXCEPT ![w] = "L154"]
       ELSE /\ running' = NoTask
            /\ UNCHANGED <<queue_lock, wpc>>
    /\ UNCHANGED <<clock, db, files, downloader_running, hvars, accepted,
                   download_queue, enq_log, deq_log, nenq,
                   wjob, wrc, wfile, wfetch, wnotified, wsent>>

\* line 154 and the lock's release; popleft of an empty deque raises
L154(w) ==
    /\ running = W(w)
    /\ wpc[w] = "L154"
    /\ queue_lock' = NoTask
    /\ IF download_queue = <<>>
       THEN /\ wpc' = [wpc EXCEPT ![w] = OnException]
            /\ UNCHANGED <<download_queue, deq_log, wjob>>
       ELSE /\ wjob' = [wjob EXCEPT ![w] = PopLeftJob(download_queue)]
            /\ download_queue' = PopLeftRest(download_queue)
            /\ deq_log' = Append(deq_log, PopLeftJob(download_queue))
            /\ wpc' = [wpc EXCEPT ![w] = "L164"]
    /\ UNCHANGED <<clock, db, files, running, downloader_running, hvars,
                   accepted, enq_log, nenq, wrc, wfile, wfetch, wnotified, wsent>>

\* lines 156-169: the blocking yt-dlp run
L164(w, o) ==
    /\ running = W(w)
    /\ wpc[w] = "L164"
    /\ files' = IF WritesFile(o)
                THEN Append(files, [id |-> wjob[w].id, uid |-> wjob[w].uid])
                ELSE files
    /\ wfetch' = [wfetch EXCEPT ![w] = o]
    /\ IF TimesOut(o)
       THEN /\ wpc' = [wpc EXCEPT ![w] = OnException]
            /\ UNCHANGED wrc
       ELSE /\ wpc' = [wpc EXCEPT ![w] = "L171"]
            /\ wrc' = [wrc EXCEPT ![w] = ReturnCode(o)]
    /\ UNCHANGED <<clock, db, running, downloader_running, hvars, accepted,
                   qvars, wjob, wfile, wnotified, wsent>>

\* lines 171-172: a non-zero exit is reported with send_message
L171(w) ==
    /\ running = W(w)
    /\ wpc[w] = "L171"
    /\ IF wrc[w] # 0
       THEN /\ wpc' = [wpc EXCEPT ![w] = "L172"]
            /\ running' = NoTask
       ELSE /\ wpc' = [wpc EXCEPT ![w] = "L178"]
            /\ UNCHANGED running
    /\ UNCHANGED <<clock, db, files, downloader_running, hvars, accepted, qvars,
                   wjob, wrc, wfile, wfetch, wnotified, wsent>>

\* lines 172-176: send_message returns (then `continue`) or raises
SendMessageDone(w, ok) ==
    /\ running = NoTask
    /\ wpc[w] = "L172"
    /\ running' = W(w)
    /\ wnotified' = [wnotified EXCEPT ![w] = IF ok THEN "sent" ELSE "error"]
    /\ wpc' = [wpc EXCEPT ![w] = IF ok THEN "L149" ELSE OnException]
    /\ UNCHANGED <<clock, db, files, downloader_running, hvars, accepted, qvars,
                   wjob, wrc, wfile, wfetch, wsent>>

\* lines 178-183: pick the newest file (max of an empty list raises), open it
\* and suspend in `await send_video(...)`
L178(w) ==
    /\ running = W(w)
    /\ wpc[w] = "L178"
    /\ IF files = <<>>
       THEN /\ wpc' = [wpc EXCEPT ![w] = OnException]
            /\ UNCHANGED <<wfile, running>>
       ELSE /\ wfile' = [wfile EXCEPT ![w] = NewestFile(files)]
            /\ wpc' = [wpc EXCEPT ![w] = "L183"]
            /\ running' = NoTask
    /\ UNCHANGED <<clock, db, files, downloader_running, hvars, accepted, qvars,
                   wjob, wrc, wfetch, wnotified, wsent>>

\* line 183: send_video returns or raises
SendVideoDone(w, ok) ==
    /\ running = NoTask
    /\ wpc[w] = "L183"
    /\ running' = W(w)
    /\ wsent' = [wsent EXCEPT ![w] = IF ok THEN wfile[w] ELSE NoFile]
    /\ wpc' = [wpc EXCEPT ![w] = IF ok THEN "L184" ELSE OnException]
    /\ UNCHANGED <<clock, db, files, downloader_running, hvars, accepted, qvars,
                   wjob, wrc, wfile, wfetch, wnotified>>

\* line 184: os.remove(file_path) (a missing file raises)
L184(w) ==
    /\ running = W(w)
    /\ wpc[w] = "L184"
    /\ IF InDir(files, wfile[w])
       THEN /\ files' = RemoveFile(files, wfile[w])
            /\ wpc' = [wpc EXCEPT ![w] = "L149"]
       ELSE /\ wpc' = [wpc EXCEPT ![w] = OnException]
            /\ UNCHANGED files
    /\ UNCHANGED <<clock, db, running, downloader_running, hvars, accepted,
                   qvars, wjob, wrc, wfile, wfetch, wnotified, wsent>>

\* lines 186-188: the exception is logged and the loop sleeps 5 seconds; an
\* exception no handler caught would end the task instead
L186(w) ==
    /\ running = W(w)
    /\ wpc[w] \in {"L186", "uncaught"}
    /\ wpc' = [wpc EXCEPT ![w] = IF wpc[w] = "L186" THEN "L188" ELSE "ended"]
    /\ running' = NoTask
    /\ ForgetCycle(w)
    /\ UNCHANGED <<clock, db, files, downloader_running, hvars, accepted, qvars>>

\* -------------------------------------------------------------- environment
\* midnight UTC passes.  handle's synchronous part (lines 122-136) runs in
\* microseconds and is taken to read one date; the worker's blocking fetch
\* may span midnight.
Tick ==
    /\ clock < MaxDay
    /\ running[1] # "handle"
    /\ clock' = clock + 1
    /\ UNCHANGED <<db, files, running, downloader_running, hvars, accepted,
                   qvars, wvars>>

\* a deque that outlives the process
NewDeque_Kept == download_queue

\* line 55: download_queue = deque()
NewDeque == <<>>

\* what a new process starts with: module-level state of lines 55-57 and the
\* task of line 214; bot.db and DOWNLOAD_DIR are on disk and stay
ProcessStart ==
    /\ download_queue' = NewDeque
    /\ queue_lock' = NoTask
    /\ downloader_running' = FALSE
    /\ running' = NoTask
    /\ hpc' = [h \in Handlers |-> "idle"]
    /\ huid' = [h \in Handlers |-> 0]
    /\ htext' = [h \in Handlers |-> ""]
    /\ hcount' = [h \in Handlers |-> 0]
    /\ hday' = [h \in Handlers |-> 0]
    /\ hpos' = [h \in Handlers |-> 0]
    /\ hpre' = [h \in Handlers |-> NoPre]
    /\ hsub' = [h \in Handlers |-> ""]
    /\ wpc' = [w \in Workers |-> "created"]
    /\ wjob' = [w \in Workers |-> NoJob]
    /\ wrc' = [w \in Workers |-> 0]
    /\ wfile' = [w \in Workers |-> NoFile]
    /\ wfetch' = [w \in Workers |-> "none"]
    /\ wnotified' = [w \in Workers |-> "none"]
    /\ wsent' = [w \in Workers |-> NoFile]
    /\ enq_log' = <<>>
    /\ deq_log' = <<>>
    /\ UNCHANGED <<clock, db, files, accepted, nenq>>

\* lines 197-201: /restart; os._exit(0) for the admin, nothing for anyone
\* else.  The process is then started again by whatever supervises it.
Restart(uid) ==
    /\ running = NoTask
    /\ IF is_admin(uid) THEN ProcessStart ELSE UNCHANGED vars

\* ------------------------------------------------------------------- faults
\* the process dies at any point (kill, power loss), also in the middle of
\* handle's synchronous part, and is started again; what was committed to
\* bot.db stays, a statement not yet executed never happens
Crash == ProcessStart

\* cur.execute / conn.commit raises sqlite3.Error inside get_user (line 122)
\* or inside update_user (line 135); the statement has no effect
StorageFailure(h) ==
    /\ running = H(h)
    /\ hpc[h] \in {"L122", "L135"}
    /\ hpc' = [hpc EXCEPT ![h] = "raised"]
    /\ UNCHANGED <<clock, db, files, running, downloader_running, huid, htext,
                   hcount, hday, hpos, hpre, hsub, accepted, qvars, wvars>>

\* handle has no try block: the exception leaves the coroutine, the
\* dispatcher logs it, and no reply is sent
Propagate(h) ==
    /\ running = H(h)
    /\ hpc[h] = "raised"
    /\ hpc' = [hpc EXCEPT ![h] = "idle"]
    /\ huid' = [huid EXCEPT ![h] = 0]
    /\ htext' = [htext EXCEPT ![h] = ""]
    /\ hcount' = [hcount EXCEPT ![h] = 0]
    /\ hday' = [hday EXCEPT ![h] = 0]
    /\ hpos' = [hpos EXCEPT ![h] = 0]
    /\ hpre' = [hpre EXCEPT ![h] = NoPre]
    /\ hsub' = [hsub EXCEPT ![h] = ""]
    /\ running' = NoTask
    /\ UNCHANGED <<clock, db, files, downloader_running, accepted, qvars, wvars>>

\* --------------------------------------------------------------------- Next
HandleStep(h) ==
    \/ \E uid \in Users, text \in Urls : Arrive(h, uid, text)
    \/ \E res \in ChatMemberResults : IsSubscribedDone(h, res)
    \/ L122(h)
    \/ L123(h)
    \/ L127(h)
    \/ L131(h)
    \/ L132(h)
    \/ L135(h)
    \/ ReplyStart(h)
    \/ ReplyDone(h)

DownloaderStep(w) ==
    \/ L141(w)
    \/ L144(w)
    \/ L149(w)
    \/ SleepDone(w)
    \/ L153(w)
    \/ L154(w)
    \/ \E o \in FetchOutcomes : L164(w, o)
    \/ L171(w)
    \/ \E ok \in BOOLEAN : SendMessageDone(w, ok)
    \/ L178(w)
    \/ \E ok \in BOOLEAN : SendVideoDone(w, ok)
    \/ L184(w)
    \/ L186(w)

Next ==
    \/ \E h \in Handlers : HandleStep(h)
    \/ \E w \in Workers : DownloaderStep(w)
    \/ Tick
    \/ \E uid \in Users \cup {ADMIN_ID} : Restart(uid)

Spec == Init /\ [][Next]_vars

\* the program together with process deaths and storage errors
FaultNext ==
    \/ Next
    \/ Crash
    \/ \E h \in Handlers : StorageFailure(h)
    \/ \E h \in Handlers : Propagate(h)

\* first start: CREATE TABLE IF NOT EXISTS has just made an empty table
FaultInit == Init /\ \A u \in Users : ~db[u].has_row

FaultSpec == FaultInit /\ [][FaultNext]_vars

\* the event loop runs every ready coroutine in turn (its ready queue is
\* first-in first-out), timers fire, the child process ends or is killed at
\* the timeout, and network calls return or raise
LiveNext ==
    \/ \E h \in Handlers : HandleStep(h)
    \/ \E w \in Workers : DownloaderStep(w)
    \/ Tick

\* the worker's progress does not read the table: one starting table is enough
LiveInit == Init /\ db = [u \in Users |-> NoRow]

LiveSpec ==
    /\ LiveInit
    /\ [][LiveNext]_vars
    /\ \A h \in Handlers :
         WF_vars(L122(h) \/ L123(h) \/ L127(h) \/ L131(h) \/ L132(h) \/ L135(h)
                 \/ ReplyStart(h))
    /\ \A w \in Workers : SF_vars(DownloaderStep(w))

\* =================================================================== claims
\* a handle invocation in its synchronous part whose user had a row
InSync(h) == running = H(h) /\ hpre[h].has_row
Stale(h) == hpre[h].last_day # hpre[h].today
PreRow(h) == Row(hpre[h].daily_count, hpre[h].last_day)

\* a worker whose cycle for wjob[w] is over: back at the top of the loop, or
\* in the except clause
CycleOver(w) == running = W(w) /\ wpc[w] \in {"L149", "L186"} /\ wjob[w] # NoJob
FileOfJob(id) == \E i \in 1..Len(files) : files[i].id = id

\* C1: for a user whose stored last_day is today, a submission made at
\* daily_count = DAILY_LIMIT never gets past the quota test, appends nothing
\* and leaves the stored row as it was; a submission made at DAILY_LIMIT - 1
\* is accepted, appends exactly one job and leaves daily_count = DAILY_LIMIT.
C1_QuotaBoundary ==
    \A h \in Handlers :
      (InSync(h) /\ ~Stale(h)) =>
        /\ hpre[h].daily_count = DAILY_LIMIT =>
             /\ hpc[h] \in {"L122", "L123", "L127", "L128"}
             /\ db[huid[h]] = PreRow(h)
             /\ nenq = hpre[h].nenq
             /\ Len(download_queue) = hpre[h].qlen
        /\ hpre[h].daily_count = DAILY_LIMIT - 1 =>
             /\ hpc[h] # "L128"
             /\ hpc[h] = "L136" =>
                  /\ nenq = hpre[h].nenq + 1
                  /\ Len(download_queue) = hpre[h].qlen + 1
                  /\ db[huid[h]] = Row(DAILY_LIMIT, today)

\* a rejection at the limit, of a user whose fourth request of the day was
\* accepted by this process (rows start at DAILY_LIMIT - 1 at most)
C1_Witness ==
    \E h \in Handlers :
      /\ InSync(h) /\ ~Stale(h)
      /\ hpc[h] = "L128"
      /\ hpre[h].daily_count = DAILY_LIMIT
      /\ nenq >= 1

\* C2: for every user and every day, the number of jobs appended for that
\* user on that day never exceeds DAILY_LIMIT, however handle invocations
\* interleave.
C2_DailyCap ==
    \A u \in Users : \A d \in Days : accepted[u][d] <= DAILY_LIMIT

\* the fifth request of a day is turned down while the same user's fourth,
\* which arrived before it was decided, is still being answered
C2_Witness ==
    \E h \in Handlers : \E g \in Handlers \ {h} :
      /\ running = H(h)
      /\ hpc[h] = "L128"
      /\ accepted[huid[h]][today] = DAILY_LIMIT
      /\ hpc[g] = "reply"
      /\ huid[g] = huid[h]
      /\ nenq = 1

\* C3: a stored row whose last_day is not today counts as 0 whatever its
\* daily_count, so the request is accepted and the row becomes (1, today);
\* a row whose last_day is today is continued from its stored count.
C3_DailyReset ==
    \A h \in Handlers :
      InSync(h) =>
        /\ Stale(h) =>
             /\ hpc[h] # "L128"
             /\ hpc[h] = "L136" => db[huid[h]] = Row(1, today)
        /\ (~Stale(h) /\ hpc[h] = "L136") =>
             db[huid[h]] = Row(hpre[h].daily_count + 1, today)

\* a user who ended the previous day at the limit has just been accepted
C3_Witness ==
    \E h \in Handlers :
      /\ InSync(h) /\ Stale(h)
      /\ hpre[h].daily_count = DAILY_LIMIT
      /\ hpc[h] = "L136"

\* C4: the jobs popped so far, followed by the jobs still queued, are the
\* jobs appended, in the order they were appended: nothing is reordered,
\* duplicated or skipped.
C4_Fifo == deq_log \o download_queue = enq_log

\* two jobs of different users have been popped
C4_Witness ==
    /\ Len(deq_log) = 2
    /\ deq_log[1].uid # deq_log[2].uid

\* C5: when a cycle is over whose fetch exited non-zero or hit the timeout,
\* the job's user has been sent the failure message (unless the notifier
\* itself raised).
C5_FailureReported ==
    \A w \in Workers :
      (CycleOver(w) /\ wfetch[w] \in {"exit1", "exit1_partial", "timeout",
                                      "timeout_partial"}
                    /\ wnotified[w] # "error")
        => wnotified[w] = "sent"

\* C6: when a cycle is over whose fetch exited non-zero and whose failure
\* message was sent, the job has left the queue and no file of that job is in
\* the download directory.
C6_NoFileAfterFailure ==
    \A w \in Workers :
      (CycleOver(w) /\ wfetch[w] \in {"exit1", "exit1_partial"}
                    /\ wnotified[w] = "sent") =>
        /\ \A i \in 1..Len(download_queue) : download_queue[i].id # wjob[w].id
        /\ ~FileOfJob(wjob[w].id)

\* C7: when a cycle is over whose fetch exited zero and wrote a file, that
\* file is no longer in the download directory, whether send_video returned
\* or raised.
C7_CleanupAfterSuccess ==
    \A w \in Workers :
      (CycleOver(w) /\ wfetch[w] = "exit0_file") => ~FileOfJob(wjob[w].id)

\* C8: no downloader_loop that entered its loop ever ends, and whenever one
\* is in its except clause it gets back to the top of the loop and every job
\* then in the queue is popped later.
C8_LoopSurvives ==
    /\ [](\A w \in Workers : wpc[w] \notin {"uncaught", "ended"})
    /\ (\E w \in Workers : wpc[w] = "L186") ~> (\E w \in Workers : wpc[w] = "L149")
    /\ \A id \in 1..MaxJobs :
         ((\E w \in Workers : wpc[w] = "L186")
            /\ (\E i \in 1..Len(download_queue) : download_queue[i].id = id))
         ~> (\E i \in 1..Len(deq_log) : deq_log[i].id = id)

\* a worker is in its except clause while a job waits in the queue
C8_Witness ==
    \E w \in Workers : wpc[w] = "L186" /\ download_queue # <<>>

\* C9: at most one downloader_loop task is inside the loop, and a task that
\* returned at the latch holds no job.
C9_Singleton ==
    /\ Cardinality({w \in Workers :
                      wpc[w] \notin {"created", "returned", "L144"}}) <= 1
    /\ Cardinality({w \in Workers : wpc[w] = "L144"}) <= 1
    /\ \A w \in Workers : wpc[w] = "returned" => wjob[w] = NoJob

\* one task holds a popped job, the other returned at the latch
C9_Witness ==
    \E w \in Workers : \E v \in Workers :
      /\ wpc[w] = "returned"
      /\ wpc[v] = "L164"
      /\ wjob[v] # NoJob

\* C10: when get_chat_member reports a non-member or raises, handle goes to
\* its refusal on line 119 and from there to its end, and neither step
\* changes the table, the queue or any count of accepted jobs.
C10_NotEligibleNoEffect ==
    [][\A h \in Handlers :
         /\ (hpc[h] = "L118" /\ hsub'[h] \in {"left", "error"}) =>
              /\ hpc'[h] = "L119"
              /\ db' = db
              /\ download_queue' = download_queue
              /\ accepted' = accepted /\ nenq' = nenq
         /\ (hpc[h] = "L119" /\ hpc'[h] = "reply") =>
              /\ db' = db
              /\ download_queue' = download_queue
              /\ accepted' = accepted /\ nenq' = nenq]_vars

\* a refusal caused by a failed eligibility check, of a user with no row
C10_Witness ==
    \E h \in Handlers :
      /\ running = H(h)
      /\ hpc[h] = "L119"
      /\ hsub[h] = "error"
      /\ ~db[huid[h]].has_row

Ids(seq) == {seq[i].id : i \in 1..Len(seq)}
Holding(w) == wjob[w] # NoJob

\* C11: a job is never in two places: the queued jobs are distinct, the
\* popped jobs are distinct, no popped job is in the queue, a job a worker
\* holds has been popped and is held by that worker alone, and a worker
\* that stands before the fetch of its job has not fetched for it yet.
C11_LinearLifecycle ==
    /\ Cardinality(Ids(download_queue)) = Len(download_queue)
    /\ Cardinality(Ids(deq_log)) = Len(deq_log)
    /\ Ids(download_queue) \cap Ids(deq_log) = {}
    /\ \A w \in Workers :
         Holding(w) =>
           /\ wjob[w].id \in Ids(deq_log)
           /\ \A v \in Workers \ {w} : wjob[v] # wjob[w]
           /\ wpc[w] = "L164" => wfetch[w] = "none"
    /\ \A w \in Workers : wfetch[w] # "none" => Holding(w)

\* a job's single attempt timed out, the job is gone from the queue and
\* another job waits behind it
C11_Witness ==
    \E w \in Workers :
      /\ wpc[w] = "L186"
      /\ wfetch[w] = "timeout"
      /\ Holding(w)
      /\ Len(download_queue) = 1
      /\ Len(deq_log) = 1

NoSubmitInFlight == running[1] # "handle"

\* C12: whenever no handler is between its read of the row and its reply,
\* every stored row dated today holds exactly the number of submissions
\* accepted from that user today, concurrent same-user submissions included.
C12_CounterMatchesAccepted ==
    NoSubmitInFlight =>
      \A u \in Users :
        (db[u].has_row /\ db[u].last_day = today) =>
          db[u].daily_count = accepted[u][today]

\* two overlapping submissions of one user were both accepted and charged
C12_Witness ==
    \E h \in Handlers : \E g \in Handlers \ {h} :
      /\ running = NoTask
      /\ hpc[h] = "reply" /\ hpc[g] = "reply"
      /\ huid[h] = huid[g]
      /\ db[huid[h]] = Row(2, today)
      /\ accepted[huid[h]][today] = 2

\* a step that ends in the state a fresh process has
RestartStep ==
    /\ wpc' = [w \in Workers |-> "created"]
    /\ hpc' = [h \in Handlers |-> "idle"]
    /\ running' = NoTask
    /\ downloader_running' = FALSE
    /\ enq_log' = <<>>
    /\ deq_log' = <<>>

\* C13: whatever the state a restart (admin /restart, or a process death)
\* happens in, the new process has an empty queue and no job in flight, and
\* every stored row is exactly what the last committed statement left.
C13_RestartSemantics ==
    [][RestartStep =>
         /\ download_queue' = <<>>
         /\ \A w \in Workers : wjob'[w] = NoJob
         /\ queue_lock' = NoTask
         /\ db' = db]_vars

\* a fresh process after a job was accepted and charged: the job is gone,
\* the charge is still stored
C13_Witness ==
    /\ wpc = [w \in Workers |-> "created"]
    /\ hpc = [h \in Handlers |-> "idle"]
    /\ enq_log = <<>>
    /\ download_queue = <<>>
    /\ nenq = 1
    /\ \E u \in Users : db[u] = Row(1, today) /\ accepted[u][today] = 1

\* C14: when handle is about to write the charge its job is already the
\* last one appended and the stored count is still the one it read; and in
\* every state, also after a process death or a storage error, no row holds
\* a count larger than the number of jobs appended for that user and day.
C14_EnqueueBeforeCharge ==
    /\ \A h \in Handlers :
         (running = H(h) /\ hpc[h] = "L135") =>
           /\ nenq = hpre[h].nenq + 1
           /\ enq_log[Len(enq_log)].id = nenq
           /\ enq_log[Len(enq_log)].uid = huid[h]
           /\ db[huid[h]].has_row
           /\ db[huid[h]].daily_count = hpre[h].daily_count
    /\ \A u \in Users :
         db[u].has_row => db[u].daily_count <= accepted[u][db[u].last_day]

\* a new process after a death between the append and the UPDATE: a job
\* was appended for the user, the row still says no submission
C14_Witness ==
    /\ running = NoTask
    /\ wpc = [w \in Workers |-> "created"]
    /\ hpc = [h \in Handlers |-> "idle"]
    /\ enq_log = <<>>
    /\ \E u \in Users : db[u] = Row(0, today) /\ accepted[u][today] = 1

\* C15: when the UPDATE of line 135 raises, the submission fails as a
\* whole: the exception leaves handle and the job this invocation appended
\* is not left in the queue without its charge.
C15_StorageFailureFailsSubmission ==
    \A h \in Handlers :
      (running = H(h) /\ hpc[h] = "raised" /\ hpos[h] > 0) =>
        hpre[h].nenq + 1 \notin Ids(download_queue)

CountZero(h) == ~hpre[h].has_row \/ hpre[h].daily_count = 0

\* C16: the position an accepted submission reports is the length of the
\* queue right after its own append: one more than the length it found, at
\* least 1, and the place where its own job stands; a submission into an
\* empty queue by a user with count 0 reports 1 and leaves the count at 1.
C16_QueuePosition ==
    \A h \in Handlers :
      (running = H(h) /\ hpc[h] \in {"L135", "L136"}) =>
        /\ hpos[h] = hpre[h].qlen + 1
        /\ hpos[h] = Len(download_queue)
        /\ hpos[h] >= 1
        /\ download_queue[hpos[h]].id = hpre[h].nenq + 1
        /\ download_queue[hpos[h]].uid = huid[h]
        /\ (hpc[h] = "L136" /\ hpre[h].qlen = 0 /\ CountZero(h)) =>
             /\ hpos[h] = 1
             /\ db[huid[h]] = Row(1, today)

\* a first submission into an empty queue is about to be answered
C16_Witness ==
    \E h \in Handlers :
      /\ running = H(h)
      /\ hpc[h] = "L136"
      /\ hpre[h].qlen = 0
      /\ ~hpre[h].has_row
      /\ hpos[h] = 1
      /\ Len(download_queue) = 1
      /\ db[huid[h]].daily_count = 1

FirstCall(h) == hpc[h] = "L122" /\ hpc'[h] = "L123"

\* C17: a second get_user right after the first returns the same
\* (count, day) and leaves the table as the first call left it, whether or
\* not the user had a row; a stored row, stale or not, is returned as it is
\* stored and the read does not change it.
C17_GetUserIdempotent ==
    [][\A h \in Handlers :
         FirstCall(h) =>
           /\ get_user(huid[h])' = Row(hcount'[h], hday'[h])
           /\ get_user_db(huid[h])' = db'
           /\ db[huid[h]].has_row =>
                /\ db' = db
                /\ Row(hcount'[h], hday'[h]) = db[huid[h]]
           /\ ~db[huid[h]].has_row =>
                /\ db' = [db EXCEPT ![huid[h]] = Row(0, today)]
                /\ Row(hcount'[h], hday'[h]) = Row(0, today)]_vars

\* get_user has just returned a row of an earlier day, as stored
C17_Witness ==
    \E h \in Handlers :
      /\ running = H(h)
      /\ hpc[h] = "L123"
      /\ hpre[h].has_row
      /\ Stale(h)
      /\ Row(hcount[h], hday[h]) = PreRow(h)
      /\ db[huid[h]] = PreRow(h)

\* C20: every stored row has 0 <= daily_count <= DAILY_LIMIT in every
\* reachable state, whatever the interleaving of submissions and day
\* changes, and a user who has a row has one ever after.
C20_CounterRange ==
    /\ [](\A u \in Users :
            db[u].has_row =>
              (db[u].daily_count >= 0 /\ db[u].daily_count <= DAILY_LIMIT))
    /\ [][\A u \in Users : db[u].has_row => db'[u].has_row]_vars

\* a row at DAILY_LIMIT - 1 of an earlier day was overwritten by the first
\* submission of a new day
C20_Witness ==
    \E u \in Users :
      /\ clock = 1
      /\ db[u] = Row(1, 1)
      /\ accepted[u][0] = DAILY_LIMIT - 1
      /\ accepted[u][1] = 1

\* C18: after a fetch that exited zero, the file picked by the newest-file
\* scan is the file the job just popped produced, and a file that was
\* delivered went to the user of the job that produced it.
C18_CorrectFileToCorrectUser ==
    \A w \in Workers :
      /\ (wpc[w] = "L183" /\ wrc[w] = 0) =>
           (wfile[w].id = wjob[w].id /\ wfile[w].uid = wjob[w].uid)
      /\ wsent[w] # NoFile =>
           (wsent[w].id = wjob[w].id /\ wsent[w].uid = wjob[w].uid)

Attempted(id) == \E w \in Workers : wjob[w].id = id /\ wfetch[w] # "none"

\* C19: with the event loop running every ready coroutine, every fetch ending
\* and no restart, every job in the queue is later popped and its fetch is
\* run; and if from some point on no invocation can append any more, the
\* queue is empty from some point on.
C19_QueueDrains ==
    /\ \A id \in 1..MaxJobs :
         (id \in Ids(download_queue)) ~>
           (id \in Ids(deq_log) /\ Attempted(id))
    /\ (<>[](Pending = {})) => (<>[](download_queue = <<>>))

\* the worker is in the fetch of one job while another job waits
C19_Witness ==
    \E w \in Workers :
      /\ wpc[w] = "L164"
      /\ Holding(w)
      /\ Len(download_queue) = 1
      /\ download_queue[1].id = wjob[w].id + 1

====
